---- MODULE Spec2Model ----
(***************************************************************************)
(* A model of cprofilev (src/cprofilev.py): the report parser/formatter    *)
(* (class Stats) and the live session server (class CProfileV, main).      *)
(*                                                                         *)
(* Text is modelled character by character: a text is a sequence of        *)
(* one-character strings, so that splitting, searching, escaping and       *)
(* joining are computed the way the Python code computes them.             *)
(***************************************************************************)
EXTENDS Integers, Sequences, FiniteSets, TLC

\* ------------------------------------------------------------------ bounds
\* Longest arbitrary line given to process_line.
MaxLineLen == 3
\* Most lines in a report given to the parser.
MaxLines == 3
\* Most calls the profiled target thread records.
MaxCalls == 2
\* Most requests the server handles in one run.
MaxRequests == 2

\* ------------------------------------------------------- text primitives
NL == "\n"
SP == " "
Whitespace == {SP, NL, "\t"}

Min(S) == CHOOSE x \in S : \A y \in S : x <= y
Max(S) == CHOOSE x \in S : \A y \in S : x >= y

RECURSIVE Concat(_)
Concat(ss) == IF ss = <<>> THEN <<>> ELSE Head(ss) \o Concat(Tail(ss))

\* pat occurs in s starting at index i
OccursAt(pat, s, i) ==
    /\ i >= 1
    /\ i + Len(pat) - 1 <= Len(s)
    /\ \A j \in 1..Len(pat) : s[i + j - 1] = pat[j]

\* str.__contains__ / re.search of a literal
Contains(s, pat) == \E i \in 1..(Len(s) - Len(pat) + 1) : OccursAt(pat, s, i)

\* s[i:] of Python with a 1-based first index
From(s, i) == IF i > Len(s) THEN <<>> ELSE SubSeq(s, i, Len(s))
\* s[:n] of Python
UpTo(s, n) == IF n <= 0 THEN <<>> ELSE SubSeq(s, 1, IF n < Len(s) THEN n ELSE Len(s))

\* str.splitlines(keepends); NL is the only line boundary of the alphabet
RECURSIVE splitlines(_, _)
splitlines(s, keepends) ==
    IF s = <<>> THEN <<>>
    ELSE LET nls == {i \in 1..Len(s) : s[i] = NL}
         IN  IF nls = {} THEN <<s>>
             ELSE LET i == Min(nls)
                  IN  <<UpTo(s, IF keepends THEN i ELSE i - 1)>>
                        \o splitlines(From(s, i + 1), keepends)

\* str.split() with no argument: split on runs of whitespace, no empty tokens
RECURSIVE split(_)
split(s) ==
    IF s = <<>> THEN <<>>
    ELSE IF Head(s) \in Whitespace THEN split(Tail(s))
    ELSE LET ws == {i \in 1..Len(s) : s[i] \in Whitespace}
             n == IF ws = {} THEN Len(s) ELSE Min(ws) - 1
         IN  <<UpTo(s, n)>> \o split(From(s, n + 1))

\* sep.join(items)
RECURSIVE join(_, _)
join(sep, items) ==
    IF items = <<>> THEN <<>>
    ELSE IF Len(items) = 1 THEN items[1]
    ELSE items[1] \o sep \o join(sep, Tail(items))

\* bottle.html_escape, applied by bottle to every {{ x }} of a template
\* (not to {{ !x }})
EscapeChar(c) ==
    CASE c = "&" -> <<"&", "a", "m", "p", ";">>
      [] c = "<" -> <<"&", "l", "t", ";">>
      [] c = ">" -> <<"&", "g", "t", ";">>
      [] c = "\"" -> <<"&", "q", "u", "o", "t", ";">>
      [] c = "'" -> <<"&", "#", "0", "3", "9", ";">>
      [] OTHER -> <<c>>

html_escape(s) == Concat([i \in 1..Len(s) |-> EscapeChar(s[i])])

\* ------------------------------------------------------ program constants
FUNC_NAME_KEY == <<"f", "u", "n", "c", "_", "n", "a", "m", "e">>
IGNORE_FUNC_NAMES == { <<"f", "u", "n", "c", "t", "i", "o", "n">>, <<>> }
\* r'ncalls|tottime|cumtime': an alternation of three literals
HEADER_LINE_REGEX ==
    { <<"n", "c", "a", "l", "l", "s">>,
      <<"t", "o", "t", "t", "i", "m", "e">>,
      <<"c", "u", "m", "t", "i", "m", "e">> }

\* a header test that wants every column name on the line
search_header_line_all(line) == \A alt \in HEADER_LINE_REGEX : Contains(line, alt)

\* re.search(HEADER_LINE_REGEX, line): some alternative occurs in the line
search_header_line(line) == \E alt \in HEADER_LINE_REGEX : Contains(line, alt)

\* ------------------------------------------------------------ Stats class
\* re.search(r'(.*)\((.*)\)$', line).  '$' matches at the end of the string
\* or just before a line feed that ends it; '.' matches no line feed; the
\* search takes the leftmost start and both groups are greedy, so group 1
\* runs to the last '(' before the closing ')'.
match_stats_line(line) ==
    LET n  == Len(line)
        c  == IF n >= 1 /\ line[n] = ")" THEN n
              ELSE IF n >= 2 /\ line[n] = NL /\ line[n - 1] = ")" THEN n - 1
              ELSE 0
        s  == IF c = 0 THEN 0
              ELSE LET nls == {i \in 1..(c - 1) : line[i] = NL}
                   IN  IF nls = {} THEN 1 ELSE Max(nls) + 1
        os == IF c = 0 THEN {} ELSE {i \in s..(c - 1) : line[i] = "("}
    IN  IF os = {} THEN [matched |-> FALSE, prefix |-> <<>>, func_name |-> <<>>]
        ELSE LET o == Max(os)
             IN  [matched   |-> TRUE,
                  prefix    |-> IF o > s THEN SubSeq(line, s, o - 1) ELSE <<>>,
                  func_name |-> IF c > o + 1 THEN SubSeq(line, o + 1, c - 1) ELSE <<>>]

\* dict(bottle.request.query) is modelled as a sequence of <<key, value>>
\* pairs with distinct keys (an insertion-ordered dict).
QueryKeys(query) == {query[i][1] : i \in 1..Len(query)}

\* query[key] = val
dict_set(query, key, val) ==
    IF key \in QueryKeys(query)
    THEN [i \in 1..Len(query) |->
            IF query[i][1] = key THEN <<key, val>> ELSE query[i]]
    ELSE Append(query, <<key, val>>)

\* get_updated_href adding func_name without the assignment query[key] = val
\* replacing the value the request already carried
get_updated_href_append(query, key, val) ==
    LET q    == Append(query, <<key, val>>)
        href == <<"?">> \o Concat([i \in 1..Len(q) |->
                                     q[i][1] \o <<"=">> \o q[i][2] \o <<"&">>])
    IN  UpTo(href, Len(href) - 1)

\* Stats.get_updated_href
get_updated_href(query, key, val) ==
    LET q    == dict_set(query, key, val)
        href == <<"?">> \o Concat([i \in 1..Len(q) |->
                                     q[i][1] \o <<"=">> \o q[i][2] \o <<"&">>])
    IN  UpTo(href, Len(href) - 1)

\* Stats.process_line
process_line(line, query) ==
    LET m == match_stats_line(line)
    IN  IF m.matched /\ m.func_name \notin IGNORE_FUNC_NAMES
        THEN LET url      == get_updated_href(query, FUNC_NAME_KEY, m.func_name)
                 url_link == <<"<", "a", " ", "h", "r", "e", "f", "=", "'">>
                               \o html_escape(url) \o <<"'", ">">>
                               \o html_escape(m.func_name)
                               \o <<"<", "/", "a", ">">>
             IN  html_escape(m.prefix) \o <<"(">> \o url_link \o <<")", NL>>
        ELSE line

\* Stats.get_stats_header
RECURSIVE header_loop(_, _)
header_loop(lines, header) ==
    IF lines = <<>> THEN header
    ELSE IF search_header_line(Head(lines)) THEN header
    ELSE header_loop(Tail(lines), header \o Head(lines) \o <<NL>>)

get_stats_header(stats_str) == header_loop(splitlines(stats_str, FALSE), <<>>)

\* a row whose last field joins the remaining tokens with nothing between
make_row_unspaced(cols) == UpTo(cols, 5) \o <<Concat(From(cols, 6))>>

\* row = cols[:5] + [' '.join(cols[5:])]
make_row(cols) == UpTo(cols, 5) \o <<join(<<SP>>, From(cols, 6))>>

\* Stats.iter_stats_table_row: the rows the generator yields, in order
RECURSIVE rows_loop(_, _)
rows_loop(lines, in_table) ==
    IF lines = <<>> THEN <<>>
    ELSE LET line == Head(lines)
             now  == in_table \/ search_header_line(line)
             cols == split(line)
         IN  IF now /\ cols # <<>>
             THEN <<make_row(cols)>> \o rows_loop(Tail(lines), now)
             ELSE rows_loop(Tail(lines), now)

\* a generator that leaves the header line out of the rows
iter_stats_table_row_skip(stats_str) ==
    LET rows == rows_loop(splitlines(stats_str, FALSE), FALSE)
    IN  IF rows = <<>> THEN <<>> ELSE Tail(rows)

iter_stats_table_row(stats_str) == rows_loop(splitlines(stats_str, FALSE), FALSE)

\* One row of format_stats_table's loop body: the markup built in row_dom and
\* the list row as the statement  row += '</tr>'  leaves it (a list extended
\* by a string takes the string's characters as new elements).
format_row(row, col_el) ==
    [row_dom |-> <<"<", "t", "r", ">">>
                   \o Concat([i \in 1..Len(row) |->
                        <<"<">> \o col_el \o <<">">> \o row[i]
                          \o <<"<", "/">> \o col_el \o <<">">>]),
     row     |-> row \o << <<"<">>, <<"/">>, <<"t">>, <<"r">>, <<">">> >>]

\* table_dom as the loop of format_stats_table leaves it
build_table_dom(stats_str) ==
    LET rows == iter_stats_table_row(stats_str)
    IN  [i \in 1..Len(rows) |->
            format_row(rows[i], IF i = 1 THEN <<"t", "h">> ELSE <<"t", "d">>).row_dom]

\* Stats.format_stats_table: the text returned, or the exception raised by
\* table_dom[0] / table_dom[1] on a list that has no such element
format_stats_table(stats_str) ==
    LET table_dom == build_table_dom(stats_str)
        n         == Len(table_dom)
    IN  IF n < 2
        THEN [raised |-> "IndexError", value |-> <<>>]
        ELSE LET t1 == [table_dom EXCEPT ![1] =
                          <<"<", "t", "h", "e", "a", "d", ">">> \o @
                            \o <<"<", "/", "t", "h", "e", "a", "d", ">">>]
                 t2 == [t1 EXCEPT ![2] = <<"<", "t", "b", "o", "d", "y", ">">> \o @]
                 t3 == [t2 EXCEPT ![n] =
                          @ \o <<"<", "/", "t", "b", "o", "d", "y", ">">>]
             IN  [raised |-> "", value |-> join(<<NL>>, t3)]

\* a template whose "Called By" block is not under  % if callers
STATS_TEMPLATE_unconditional(data) ==
    << [tag |-> "title", text |-> data.title],
       [tag |-> "pre",   text |-> data.stats_header],
       [tag |-> "table", text |-> data.stats_table],
       [tag |-> "script", text |-> <<>>],
       [tag |-> "h2",  text |-> <<"C", "a", "l", "l", "e", "d", " ", "B", "y", ":">>],
       [tag |-> "pre", text |-> data.callers] >>
    \o (IF data.callees # <<>>
        THEN << [tag |-> "h2",  text |-> <<"C", "a", "l", "l", "e", "d", ":">>],
                [tag |-> "pre", text |-> data.callees] >>
        ELSE <<>>)

\* bottle.template(STATS_TEMPLATE, **data).  The page is the sequence of the
\* template's blocks.  The template closes neither '% if' with '% end', so
\* the second '% if' and the rest of the template lie inside the first.
STATS_TEMPLATE(data) ==
    << [tag |-> "title", text |-> data.title],
       [tag |-> "pre",   text |-> data.stats_header],
       [tag |-> "table", text |-> data.stats_table],
       [tag |-> "script", text |-> <<>>] >>
    \o (IF data.callers # <<>>
        THEN << [tag |-> "h2",  text |-> <<"C", "a", "l", "l", "e", "d", " ", "B", "y", ":">>],
                [tag |-> "pre", text |-> data.callers] >>
             \o (IF data.callees # <<>>
                 THEN << [tag |-> "h2",  text |-> <<"C", "a", "l", "l", "e", "d", ":">>],
                         [tag |-> "pre", text |-> data.callees],
                         [tag |-> "/div", text |-> <<>>],
                         [tag |-> "/body", text |-> <<>>],
                         [tag |-> "/html", text |-> <<>>] >>
                 ELSE <<>>)
        ELSE <<>>)

\* Stats.read_stream / Stats.read on a sink holding `value`: the text read()
\* returns (the handler step that reads also empties the sink, see truncate)
read(value, query) ==
    LET lines == splitlines(value, TRUE)
    IN  Concat([i \in 1..Len(lines) |-> process_line(lines[i], query)])

\* a read_stream that rewinds the sink and does not truncate it
truncate_missing(value) == value

\* what Stats.read_stream leaves in the sink: seek(0); truncate()
truncate(value) == <<>>

\* ------------------------------------------------------- profiler backend
\* The profiled program's functions, in the order pstats lists them.
Funcs == << <<"f">>, <<"g">> >>
FuncIds == 1..Len(Funcs)

NoCalls == [i \in FuncIds |-> 0]

RECURSIVE SumTo(_, _)
SumTo(snap, n) == IF n = 0 THEN 0 ELSE snap[n] + SumTo(snap, n - 1)
total_calls(snap) == SumTo(snap, Len(Funcs))

Digit(n) ==
    CASE n = 0 -> "0" [] n = 1 -> "1" [] n = 2 -> "2" [] n = 3 -> "3" [] n = 4 -> "4"
      [] n = 5 -> "5" [] n = 6 -> "6" [] n = 7 -> "7" [] n = 8 -> "8" [] OTHER -> "9"

\* statistics kept from the first time each function was seen, not read anew
create_stats_stale(profile) == [i \in FuncIds |-> IF profile[i] > 0 THEN 1 ELSE 0]

\* cProfile.Profile.create_stats, called by pstats.Stats(profile): a copy of
\* the calls recorded up to this moment
create_stats(profile) == profile

\* pstats.func_std_string
func_std_string(i) == <<"m", ":", "1", "(">> \o Funcs[i] \o <<")">>

\* pstats.Stats.get_print_list: the functions with recorded calls that the
\* restriction selects, and the message printed above a non-empty list
RECURSIVE select(_, _, _)
select(snap, restriction, i) ==
    IF i > Len(Funcs) THEN <<>>
    ELSE (IF snap[i] > 0 /\ Contains(func_std_string(i), restriction)
          THEN <<i>> ELSE <<>>) \o select(snap, restriction, i + 1)

print_list(snap, restriction) == select(snap, restriction, 1)

print_msg(snap, restriction) ==
    <<SP, "R", "a", "n", "d", "o", "m", SP, "o", "r", "d", "e", "r", NL>>
    \o (IF Len(print_list(snap, restriction)) # Len(print_list(snap, <<>>))
        THEN <<SP, "L", "i", "s", "t", SP, "r", "e", "d", "u", "c", "e", "d", SP, "<", "'">>
               \o restriction \o <<"'", ">", NL>>
        ELSE <<>>)
    \o <<NL>>

\* Stats.show: pstats.Stats.print_stats(restriction), the text it prints
print_stats(snap, restriction) ==
    LET list == print_list(snap, restriction)
    IN  <<SP, Digit(total_calls(snap)), SP, "c", "a", "l", "l", "s", NL, NL>>
        \o (IF list = <<>> THEN <<>>
            ELSE print_msg(snap, restriction)
                 \o <<SP, "n", "c", "a", "l", "l", "s", SP, SP, "t", "o", "t", "t", "i", "m", "e",
                      SP, SP, "p", "e", "r", "c", "a", "l", "l", SP, SP,
                      "c", "u", "m", "t", "i", "m", "e", SP, SP, "p", "e", "r", "c", "a", "l", "l",
                      SP, "f", "i", "l", "e", ":", "l", "i", "n", "e",
                      "(", "f", "u", "n", "c", "t", "i", "o", "n", ")", NL>>
                 \o Concat([k \in 1..Len(list) |->
                       <<SP, SP, Digit(snap[list[k]]), SP, SP, "0", ".", "0", SP, "0", ".", "0",
                         SP, "0", ".", "0", SP, "0", ".", "0", SP>>
                         \o func_std_string(list[k]) \o <<NL>>])
                 \o <<NL, NL>>)

\* Stats.show_callers: pstats.Stats.print_callers(func_name)
print_callers(snap, restriction) ==
    LET list == print_list(snap, restriction)
    IN  IF list = <<>> THEN <<>>
        ELSE print_msg(snap, restriction)
             \o <<"w", "a", "s", SP, "c", "a", "l", "l", "e", "d", SP, "b", "y", ".", ".", ".", NL>>
             \o Concat([k \in 1..Len(list) |->
                   func_std_string(list[k]) \o <<SP, "<", "-", SP, Digit(snap[list[k]]), SP>>
                     \o <<"~", ":", "0", "(", "<", "m", ">", ")", NL>>])
             \o <<NL, NL>>

\* Stats.show_callees: pstats.Stats.print_callees(func_name)
print_callees(snap, restriction) ==
    LET list == print_list(snap, restriction)
    IN  IF list = <<>> THEN <<>>
        ELSE print_msg(snap, restriction)
             \o <<"c", "a", "l", "l", "e", "d", ".", ".", ".", NL>>
             \o Concat([k \in 1..Len(list) |->
                   func_std_string(list[k]) \o <<SP, "-", ">", SP, NL>>])
             \o <<NL, NL>>

\* bottle.request.query.get(key): the value, or None (here the empty text,
\* which  `or ''`  turns None into anyway)
query_get(query, key) ==
    IF key \in QueryKeys(query)
    THEN query[CHOOSE i \in 1..Len(query) : query[i][1] = key][2]
    ELSE <<>>

\* ================================================================== state
VARIABLES
    arg,        \* the arguments of the function under test
    call,       \* the function last applied to them ("none" before any call)
    ret,        \* what it returned
    recorded,   \* the cProfile.Profile object: calls recorded so far, per function
    target,     \* the thread running the profiled program: "running" or "exited"
    pending,    \* requests that reached the server and are not yet handled
    nreq,       \* number of requests that have arrived
    self_stats, \* CProfileV.stats: the Stats object route_handler last created (0: none)
    stream,     \* Stats.stream of each Stats object (one object per request)
    snaps,      \* pstats.Stats.stats of each Stats object
    worker,     \* each handler thread: its place in route_handler and its locals
    response    \* the answer to the request handled last, until the next is taken

tvars == <<arg, call, ret>>
svars == <<recorded, target, pending, nreq, self_stats, stream, snaps, worker,
           response>>
vars  == <<arg, call, ret, recorded, target, pending, nreq, self_stats, stream,
           snaps, worker, response>>

\* ---------------------------------------------------------------- inputs
LineAlphabet == {"a", "(", ")", "&"}
ShortLines == UNION {[1..k -> LineAlphabet] : k \in 0..MaxLineLen}
SpecialLines ==
    { <<"x", ":", "1", "(", "f", "u", "n", "c", "t", "i", "o", "n", ")">>,
      <<"<", "s", ">", ":", "1", "(", "<", "m", ">", ")">>,
      <<"f", "(", "x", ")", " ", "p", "y", "(", "g", "'", ")">>,
      <<"n", "o", " ", "g", "r", "o", "u", "p">> }
LineContents == ShortLines \cup SpecialLines
\* a line of splitlines(True): its content, with or without the line feed
Lines == LineContents \cup {l \o <<NL>> : l \in LineContents}

Queries ==
    { <<>>,
      << <<<<"a">>, <<"1">>>> >>,
      << <<FUNC_NAME_KEY, <<"g">>>> >>,
      << <<<<"a">>, <<"1">>>>, <<FUNC_NAME_KEY, <<"g">>>>, <<<<"b">>, <<"2">>>> >>,
      << <<FUNC_NAME_KEY, <<"a">>>>, <<<<"b">>, <<"x", "&", "y">>>> >> }

\* Lines a report is built from: blank lines, the title line pstats prints,
\* lines that hold only some of its column names, and rows of few and of
\* many tokens.
L_blank   == <<>>
L_spaces  == <<SP, SP>>
L_title   == <<SP, "n", "c", "a", "l", "l", "s", SP, SP, "t", "o", "t", "t", "i", "m", "e",
               SP, "p", SP, "c", "u", "m", "t", "i", "m", "e", SP, "p", SP,
               "f", "(", "f", "u", "n", "c", "t", "i", "o", "n", ")">>
L_partial == <<"b", "y", SP, "t", "o", "t", "t", "i", "m", "e">>
L_row     == <<SP, "3", SP, SP, "0", SP, "0", "\t", "0", SP, "0", SP, "a", SP, SP, "1", "(", "f", ")">>
L_short   == <<"9", SP, "c", "a", "l", "l", "s">>
LinePool  == {L_blank, L_spaces, L_title, L_partial, L_row, L_short}

Reports ==
    UNION {{Concat([i \in 1..k |-> ls[i] \o <<NL>>]) : ls \in [1..k -> LinePool]} :
             k \in 0..MaxLines}

PageTexts == { <<>>, <<"x", NL>> }

NoArg == [kind |-> "none", line |-> <<>>, query |-> <<>>, stats_str |-> <<>>,
          callers |-> <<>>, callees |-> <<>>]

LineArgs   == {[NoArg EXCEPT !.kind = "line", !.line = l, !.query = q] :
                 l \in Lines, q \in Queries}
ReportArgs == {[NoArg EXCEPT !.kind = "report", !.stats_str = r] : r \in Reports}
PageArgs   == {[NoArg EXCEPT !.kind = "page", !.callers = a, !.callees = b] :
                 a \in PageTexts, b \in PageTexts}

\* ------------------------------------------- the functions, one call each
ReqIds == 1..MaxRequests
\* the handler threads a server may have
Workers == {1, 2}

NoResponse == [req |-> 0, status |-> 0, error |-> "", page |-> <<>>,
               data |-> [title |-> <<>>, stats_header |-> <<>>, stats_table |-> <<>>,
                         callers |-> <<>>, callees |-> <<>>],
               query |-> <<>>, func_name |-> <<>>, snap |-> NoCalls, seen |-> NoCalls]

\* seen, used, written and raw are history: the calls recorded when the
\* handling of the request began, the statistics the last report generation
\* read, the text it printed, and the text the last read_stream returned
IdleWorker == [pc |-> "idle", req |-> 0, query |-> <<>>, func_name |-> <<>>,
               callers |-> <<>>, callees |-> <<>>, stats_str |-> <<>>,
               cur |-> 0, seen |-> NoCalls, used |-> NoCalls, written |-> <<>>,
               raw |-> <<>>]

\* the server after CProfileV.__init__, before any request
ServerIdle ==
    /\ pending = <<>>
    /\ nreq = 0
    /\ self_stats = 0
    /\ stream = [r \in ReqIds |-> <<>>]
    /\ snaps = [r \in ReqIds |-> NoCalls]
    /\ worker = [t \in Workers |-> IdleWorker]
    /\ response = NoResponse

\* main, lines 246 to 263: a fresh profiler, the target thread started
ServerInit ==
    /\ recorded = NoCalls
    /\ target = "running"
    /\ ServerIdle

InitText ==
    /\ arg \in LineArgs \cup ReportArgs \cup PageArgs
    /\ call = "none"
    /\ ret = <<>>
    /\ ServerInit

call_process_line ==
    /\ arg.kind = "line"
    /\ call' = "process_line"
    /\ ret' = process_line(arg.line, arg.query)
    /\ UNCHANGED <<arg, svars>>

call_get_stats_header ==
    /\ arg.kind = "report"
    /\ call' = "get_stats_header"
    /\ ret' = get_stats_header(arg.stats_str)
    /\ UNCHANGED <<arg, svars>>

call_iter_stats_table_row ==
    /\ arg.kind = "report"
    /\ call' = "iter_stats_table_row"
    /\ ret' = iter_stats_table_row(arg.stats_str)
    /\ UNCHANGED <<arg, svars>>

call_format_stats_table ==
    /\ arg.kind = "report"
    /\ call' = "format_stats_table"
    /\ ret' = format_stats_table(arg.stats_str)
    /\ UNCHANGED <<arg, svars>>

call_template ==
    /\ arg.kind = "page"
    /\ call' = "template"
    /\ ret' = STATS_TEMPLATE([title |-> <<"t">>, stats_header |-> <<"h", NL>>,
                              stats_table |-> <<>>,
                              callers |-> arg.callers, callees |-> arg.callees])
    /\ UNCHANGED <<arg, svars>>

NextText ==
    \/ call_process_line
    \/ call_get_stats_header
    \/ call_iter_stats_table_row
    \/ call_format_stats_table
    \/ call_template

SpecText == InitText /\ [][NextText]_vars

\* ------------------------------------------------------------- the server
\* Query strings of the requests sent to the server.
RequestQueries ==
    { <<>>,
      << <<<<"a">>, <<"1">>>>, <<FUNC_NAME_KEY, <<"f">>>> >>,
      << <<FUNC_NAME_KEY, <<"z">>>> >> }

TITLE == <<"p">>

\* main: progthread runs profile.runctx(code, ...); the profiled program
\* calls one of its functions and the profiler records the call
target_call ==
    /\ target = "running"
    /\ total_calls(recorded) < MaxCalls
    /\ \E i \in FuncIds : recorded' = [recorded EXCEPT ![i] = @ + 1]
    /\ UNCHANGED <<tvars, target, pending, nreq, self_stats, stream, snaps, worker,
                   response>>

\* main: the profiled program ends; nothing joins or awaits the thread
target_exit ==
    /\ target = "running"
    /\ target' = "exited"
    /\ UNCHANGED <<tvars, recorded, pending, nreq, self_stats, stream, snaps, worker,
                   response>>

\* a client sends GET /?<query>
request_arrives ==
    /\ nreq < MaxRequests
    /\ \E q \in RequestQueries :
          pending' = Append(pending, [id |-> nreq + 1, query |-> q])
    /\ nreq' = nreq + 1
    /\ UNCHANGED <<tvars, recorded, target, self_stats, stream, snaps, worker,
                   response>>

\* CProfileV.start: the server takes the next request and calls route_handler
accept(t) ==
    /\ worker[t].pc = "idle"
    /\ pending # <<>>
    /\ worker' = [worker EXCEPT ![t] =
                    [IdleWorker EXCEPT !.pc = "init", !.req = Head(pending).id,
                                       !.query = Head(pending).query,
                                       !.seen = recorded]]
    /\ pending' = Tail(pending)
    /\ response' = NoResponse
    /\ UNCHANGED <<tvars, recorded, target, nreq, self_stats, stream, snaps>>

\* A Stats object stays alive while a handler other than t still holds it
\* (the object its show* call returned); rebinding self.stats frees the rest.
in_use(o, t) ==
    \E u \in Workers \ {t} : worker[u].pc \in {"read_callers", "read_callees", "read"}
                               /\ worker[u].cur = o

\* route_handler, lines 183 and 185:  self.stats = Stats(self.profile)  and
\* func_name = query.get(FUNC_NAME_KEY) or ''.  pstats.Stats raises
\* TypeError when the profile holds no statistics at all.
new_stats(t) ==
    /\ worker[t].pc = "init"
    /\ LET r    == worker[t].req
           snap == create_stats(recorded)
       IN  IF total_calls(snap) = 0
           THEN /\ response' = [NoResponse EXCEPT !.req = r, !.status = 500,
                                                   !.error = "TypeError",
                                                   !.query = worker[t].query,
                                                   !.seen = worker[t].seen]
                /\ worker' = [worker EXCEPT ![t] = IdleWorker]
                /\ UNCHANGED <<self_stats, stream, snaps>>
           ELSE /\ snaps' = [o \in ReqIds |->
                               IF o = r THEN snap
                               ELSE IF in_use(o, t) THEN snaps[o] ELSE NoCalls]
                /\ stream' = [o \in ReqIds |->
                               IF o # r /\ in_use(o, t) THEN stream[o] ELSE <<>>]
                /\ self_stats' = r
                /\ worker' = [worker EXCEPT ![t].pc = "callers",
                                            ![t].func_name =
                                                query_get(worker[t].query, FUNC_NAME_KEY)]
                /\ UNCHANGED response
    /\ UNCHANGED <<tvars, recorded, target, pending, nreq>>

\* self.stats.show*(...): the report is printed into the sink of the Stats
\* object that self.stats names at this moment
generate(t, text, next_pc) ==
    /\ stream' = [stream EXCEPT ![self_stats] = @ \o text]
    /\ worker' = [worker EXCEPT ![t].pc = next_pc, ![t].cur = self_stats,
                                ![t].used = snaps[self_stats],
                                ![t].written = text]

\* line 187, first half
show_callers(t) ==
    /\ worker[t].pc = "callers"
    /\ IF worker[t].func_name # <<>>
       THEN generate(t, print_callers(snaps[self_stats], worker[t].func_name),
                     "read_callers")
       ELSE /\ worker' = [worker EXCEPT ![t].pc = "callees", ![t].callers = <<>>]
            /\ UNCHANGED stream
    /\ UNCHANGED <<tvars, recorded, target, pending, nreq, self_stats, snaps, response>>

\* line 187, second half: .read() on the object show_callers returned
read_callers(t) ==
    /\ worker[t].pc = "read_callers"
    /\ LET value == stream[worker[t].cur]
       IN  /\ worker' = [worker EXCEPT ![t].pc = "callees", ![t].raw = value,
                                       ![t].callers = read(value, worker[t].query)]
           /\ stream' = [stream EXCEPT ![worker[t].cur] = truncate(value)]
    /\ UNCHANGED <<tvars, recorded, target, pending, nreq, self_stats, snaps, response>>

\* line 188, first half
show_callees(t) ==
    /\ worker[t].pc = "callees"
    /\ IF worker[t].func_name # <<>>
       THEN generate(t, print_callees(snaps[self_stats], worker[t].func_name),
                     "read_callees")
       ELSE /\ worker' = [worker EXCEPT ![t].pc = "show", ![t].callees = <<>>]
            /\ UNCHANGED stream
    /\ UNCHANGED <<tvars, recorded, target, pending, nreq, self_stats, snaps, response>>

\* line 188, second half
read_callees(t) ==
    /\ worker[t].pc = "read_callees"
    /\ LET value == stream[worker[t].cur]
       IN  /\ worker' = [worker EXCEPT ![t].pc = "show", ![t].raw = value,
                                       ![t].callees = read(value, worker[t].query)]
           /\ stream' = [stream EXCEPT ![worker[t].cur] = truncate(value)]
    /\ UNCHANGED <<tvars, recorded, target, pending, nreq, self_stats, snaps, response>>

\* line 189, first half
show(t) ==
    /\ worker[t].pc = "show"
    /\ generate(t, print_stats(snaps[self_stats], worker[t].func_name), "read")
    /\ UNCHANGED <<tvars, recorded, target, pending, nreq, self_stats, snaps, response>>

\* line 189, second half
read_stats(t) ==
    /\ worker[t].pc = "read"
    /\ LET value == stream[worker[t].cur]
       IN  /\ worker' = [worker EXCEPT ![t].pc = "render", ![t].raw = value,
                                       ![t].stats_str = read(value, worker[t].query)]
           /\ stream' = [stream EXCEPT ![worker[t].cur] = truncate(value)]
    /\ UNCHANGED <<tvars, recorded, target, pending, nreq, self_stats, snaps, response>>

\* lines 190 to 197: the page, or the error format_stats_table raises
render(t) ==
    /\ worker[t].pc = "render"
    /\ LET r     == worker[t].req
           table == format_stats_table(worker[t].stats_str)
           data  == [title        |-> TITLE,
                     stats_header |-> get_stats_header(worker[t].stats_str),
                     stats_table  |-> table.value,
                     callers      |-> worker[t].callers,
                     callees      |-> worker[t].callees]
       IN  response' =
              IF table.raised # ""
              THEN [NoResponse EXCEPT !.req = r, !.status = 500, !.error = table.raised,
                                      !.query = worker[t].query,
                                      !.func_name = worker[t].func_name,
                                      !.snap = worker[t].used, !.seen = worker[t].seen]
              ELSE [req |-> r, status |-> 200, error |-> "", page |-> STATS_TEMPLATE(data),
                    data |-> data, query |-> worker[t].query,
                    func_name |-> worker[t].func_name,
                    snap |-> worker[t].used, seen |-> worker[t].seen]
    /\ worker' = [worker EXCEPT ![t] = IdleWorker]
    /\ UNCHANGED <<tvars, recorded, target, pending, nreq, self_stats, stream, snaps>>

route_handler(t) ==
    \/ new_stats(t)
    \/ show_callers(t)
    \/ read_callers(t)
    \/ show_callees(t)
    \/ read_callees(t)
    \/ show(t)
    \/ read_stats(t)
    \/ render(t)

\* CProfileV.start: app.run(host, port, quiet=True) runs bottle's default
\* server, which handles one request at a time in one thread
server_threads == {1}

Init ==
    /\ arg = NoArg
    /\ call = "none"
    /\ ret = <<>>
    /\ ServerInit

Next ==
    \/ target_call
    \/ target_exit
    \/ request_arrives
    \/ \E t \in server_threads : accept(t) \/ route_handler(t)

Spec == Init /\ [][Next]_vars

\* The same application served by a server that runs route_handler in a
\* thread per request, so that two requests are handled concurrently.  The
\* statistics are those of a finished run (main's -f mode: a saved profile).
InitConc ==
    /\ arg = NoArg
    /\ call = "none"
    /\ ret = <<>>
    /\ recorded = [i \in FuncIds |-> 1]
    /\ target = "exited"
    /\ ServerIdle

NextConc ==
    \/ request_arrives
    \/ \E t \in Workers : accept(t) \/ route_handler(t)

SpecConc == InitConc /\ [][NextConc]_vars

\* =========================================================== the claims
\* ---- what a reader of the markup sees
\* character references of HTML decoded
RECURSIVE decode_entities(_)
decode_entities(s) ==
    IF s = <<>> THEN <<>>
    ELSE IF OccursAt(<<"&", "a", "m", "p", ";">>, s, 1)
         THEN <<"&">> \o decode_entities(From(s, 6))
    ELSE IF OccursAt(<<"&", "l", "t", ";">>, s, 1)
         THEN <<"<">> \o decode_entities(From(s, 5))
    ELSE IF OccursAt(<<"&", "g", "t", ";">>, s, 1)
         THEN <<">">> \o decode_entities(From(s, 5))
    ELSE IF OccursAt(<<"&", "q", "u", "o", "t", ";">>, s, 1)
         THEN <<"\"">> \o decode_entities(From(s, 7))
    ELSE IF OccursAt(<<"&", "#", "0", "3", "9", ";">>, s, 1)
         THEN <<"'">> \o decode_entities(From(s, 7))
    ELSE <<Head(s)>> \o decode_entities(Tail(s))

\* first index at or after i where c stands in s (0: none)
IndexFrom(s, c, i) ==
    LET S == {j \in i..Len(s) : s[j] = c}
    IN  IF S = {} THEN 0 ELSE Min(S)

\* the markup  before<a href='href'>text</a>after  taken apart at its first tag
parse_link(out) ==
    LET p  == IndexFrom(out, "<", 1)
        q  == IF p > 0 /\ OccursAt(<<"<", "a", " ", "h", "r", "e", "f", "=", "'">>, out, p)
              THEN IndexFrom(out, "'", p + 9) ELSE 0
        r  == IF q > 0 /\ OccursAt(<<"'", ">">>, out, q)
              THEN IndexFrom(out, "<", q + 2) ELSE 0
        ok == r > 0 /\ OccursAt(<<"<", "/", "a", ">">>, out, r)
    IN  IF ok
        THEN [ok |-> TRUE, before |-> SubSeq(out, 1, p - 1),
              href |-> SubSeq(out, p + 9, q - 1), text |-> SubSeq(out, q + 2, r - 1),
              after |-> From(out, r + 4)]
        ELSE [ok |-> FALSE, before |-> <<>>, href |-> <<>>, text |-> <<>>, after |-> <<>>]

\* a line without the line feed that ends it
LineBody(line) ==
    IF line # <<>> /\ line[Len(line)] = NL THEN SubSeq(line, 1, Len(line) - 1) ELSE line

\* where the last parenthesized group opens, if the line ends with one
GroupOpens(line) ==
    LET b == LineBody(line)
    IN  {i \in 1..(Len(b) - 1) :
            /\ b[i] = "("
            /\ b[Len(b)] = ")"
            /\ \A j \in (i + 1)..(Len(b) - 1) : b[j] # "("}

Orderings(S) == {f \in [1..Cardinality(S) -> S] : \A x \in S : \E i \in DOMAIN f : f[i] = x}

\* every  ?k=v&k=v...  that carries each key of the query once, func_name set
WantedHrefs(query, name) ==
    LET pairs == {query[i] : i \in {j \in 1..Len(query) : query[j][1] # FUNC_NAME_KEY}}
                   \cup {<<FUNC_NAME_KEY, name>>}
    IN  {<<"?">> \o join(<<"&">>, [i \in DOMAIN f |-> f[i][1] \o <<"=">> \o f[i][2]]) :
           f \in Orderings(pairs)}

Linkified(line, query, out) ==
    LET b == LineBody(line)
        G == GroupOpens(line)
        i == CHOOSE x \in G : TRUE
    IN  IF G # {} /\ SubSeq(b, i + 1, Len(b) - 1)
                       \notin {<<"f", "u", "n", "c", "t", "i", "o", "n">>, <<>>}
        THEN LET link == parse_link(out)
                 name == SubSeq(b, i + 1, Len(b) - 1)
             IN  /\ link.ok
                 /\ decode_entities(link.before) = SubSeq(b, 1, i - 1) \o <<"(">>
                 /\ decode_entities(link.text) = name
                 /\ decode_entities(link.href) \in WantedHrefs(query, name)
                 /\ link.after = <<")", NL>>
        ELSE out = line

\* C1: process_line turns a line ending in <prefix>(<name>), name neither
\* 'function' nor empty, into the prefix, "(", an anchor that shows exactly
\* name and whose href is "?" and the key=value pairs of the request's query
\* joined by "&", every key once with its value and func_name=name, then ")"
\* and a line feed (the markup read with its character references decoded);
\* every other line is returned unchanged.
C1_Linkify == call = "process_line" => Linkified(arg.line, arg.query, ret)

C1_Witness ==
    /\ call = "process_line"
    /\ ret # arg.line
    /\ Len(arg.query) = 3
    /\ FUNC_NAME_KEY \in QueryKeys(arg.query)
    /\ \E i \in 1..Len(arg.line) : arg.line[i] = "<"

\* ---- header and rows
LinesOf(text) == splitlines(text, FALSE)
HasAllNames(line) == \A name \in HEADER_LINE_REGEX : Contains(line, name)
HasAnyName(line) == \E name \in HEADER_LINE_REGEX : Contains(line, name)

\* index of the first line with all three column names / with one of them
\* (one past the last line when there is none)
FirstWithAll(text) ==
    LET S == {i \in 1..Len(LinesOf(text)) : HasAllNames(LinesOf(text)[i])}
    IN  IF S = {} THEN Len(LinesOf(text)) + 1 ELSE Min(S)
FirstWithAny(text) ==
    LET S == {i \in 1..Len(LinesOf(text)) : HasAnyName(LinesOf(text)[i])}
    IN  IF S = {} THEN Len(LinesOf(text)) + 1 ELSE Min(S)

\* the lines before line k, each followed by a line feed
LinesBefore(text, k) == Concat([i \in 1..(k - 1) |-> LinesOf(text)[i] \o <<NL>>])

\* C5 as claimed: the header is the lines before the first line that holds
\* all three of ncalls, tottime and cumtime.
C5_HeaderBeforeAllThree ==
    call = "get_stats_header" => ret = LinesBefore(arg.stats_str, FirstWithAll(arg.stats_str))

\* C5 amended: the header is the lines before the first line that holds at
\* least one of ncalls, tottime and cumtime, each followed by a line feed;
\* every line of the report when no line holds any of them.
C5_HeaderBeforeAnyOf ==
    call = "get_stats_header" => ret = LinesBefore(arg.stats_str, FirstWithAny(arg.stats_str))

C5_Witness ==
    /\ call = "get_stats_header"
    /\ FirstWithAny(arg.stats_str) > 1
    /\ FirstWithAny(arg.stats_str) < FirstWithAll(arg.stats_str)
    /\ FirstWithAll(arg.stats_str) <= Len(LinesOf(arg.stats_str))

\* the non-blank lines from line k on, in order
IsBlank(line) == \A i \in 1..Len(line) : line[i] \in Whitespace
RowLines(text, k) ==
    LET S == {i \in k..Len(LinesOf(text)) : ~IsBlank(LinesOf(text)[i])}
    IN  CHOOSE f \in [1..Cardinality(S) -> S] : \A a, b \in DOMAIN f : a < b => f[a] < f[b]

\* C6 as claimed: one row for each non-blank line strictly after the header
\* line, and none for the header line.
C6_RowsStrictlyAfter ==
    call = "iter_stats_table_row" /\ FirstWithAny(arg.stats_str) <= Len(LinesOf(arg.stats_str))
    => Len(ret) = Len(RowLines(arg.stats_str, FirstWithAny(arg.stats_str) + 1))

\* C6 amended: one row, in order, for each non-blank line from the header line
\* on (the first line that holds ncalls, tottime or cumtime), the header line
\* itself giving the first row; no row for a line before it or a blank line.
C6_RowsFromHeader ==
    call = "iter_stats_table_row" =>
        LET src == RowLines(arg.stats_str, FirstWithAny(arg.stats_str))
        IN  /\ Len(ret) = Len(src)
            /\ \A j \in 1..Len(src) :
                  split(join(<<SP>>, ret[j])) = split(LinesOf(arg.stats_str)[src[j]])

C6_Witness ==
    /\ call = "iter_stats_table_row"
    /\ FirstWithAny(arg.stats_str) = 2
    /\ Len(ret) = 2
    /\ Len(LinesOf(arg.stats_str)) = 3
    /\ ret[1] = make_row(split(L_title))

\* C7 as claimed: every row has six fields, the first five tokens of its line
\* and the remaining tokens rejoined with single spaces.
C7_SixFields ==
    call = "iter_stats_table_row" =>
        LET src == RowLines(arg.stats_str, FirstWithAny(arg.stats_str))
        IN  \A j \in 1..Len(ret) :
               LET toks == split(LinesOf(arg.stats_str)[src[j]])
               IN  /\ Len(ret[j]) = 6
                   /\ \A i \in 1..5 : ret[j][i] = toks[i]
                   /\ ret[j][6] = join(<<SP>>, From(toks, 6))

\* C7 amended: a row made from a line of n tokens has min(n, 5) + 1 fields:
\* the first min(n, 5) tokens in order, then one field holding the remaining
\* tokens rejoined with single spaces (empty when n <= 5); it has the
\* six-field shape exactly when n >= 5.
C7_Fields ==
    call = "iter_stats_table_row" =>
        LET src == RowLines(arg.stats_str, FirstWithAny(arg.stats_str))
        IN  \A j \in 1..Len(ret) :
               LET toks == split(LinesOf(arg.stats_str)[src[j]])
                   m    == IF Len(toks) < 5 THEN Len(toks) ELSE 5
               IN  /\ Len(ret[j]) = m + 1
                   /\ \A i \in 1..m : ret[j][i] = toks[i]
                   /\ ret[j][m + 1] = join(<<SP>>, From(toks, 6))
                   /\ (Len(ret[j]) = 6 <=> Len(toks) >= 5)

C7_Witness ==
    /\ call = "iter_stats_table_row"
    /\ \E j \in 1..Len(ret) : Len(ret[j]) = 3
    /\ \E j \in 1..Len(ret) : Len(ret[j]) = 6 /\ \E i \in 1..Len(ret[j][6]) : ret[j][6][i] = SP

\* number of places where pat occurs in s
Count(s, pat) == Cardinality({i \in 1..Len(s) : OccursAt(pat, s, i)})

\* C10: format_stats_table emits each parsed row as one row element, opened
\* with <tr> and closed with </tr>, and building the markup leaves the row's
\* cells as they were.
C10_RowsClosed ==
    call = "format_stats_table" /\ ret.raised = "" =>
        LET rows == iter_stats_table_row(arg.stats_str)
        IN  /\ Count(ret.value, <<"<", "t", "r", ">">>) = Len(rows)
            /\ Count(ret.value, <<"<", "/", "t", "r", ">">>) = Len(rows)
            /\ \A j \in 1..Len(rows) : format_row(rows[j], <<"t", "d">>).row = rows[j]

\* ---- the server
Reading == {"read_callers", "read_callees", "read"}
AfterRead == {"callees", "show", "render"}

\* C2: a request that arrives while the target thread runs never waits for
\* it (taking the request, reading the profile and printing each report can
\* go ahead at once; the steps in between work on text already printed), and
\* the statistics its reports are printed from hold every call recorded
\* before its handling began: they are read anew for the request, and the
\* page shows their total.
C2_LiveSnapshot ==
    /\ \A t \in server_threads :
          target = "running" =>
             /\ worker[t].pc = "idle" /\ pending # <<>> => ENABLED accept(t)
             /\ worker[t].pc = "init" => ENABLED new_stats(t)
             /\ worker[t].pc \in {"callers", "callees", "show"}
                   => ENABLED (show_callers(t) \/ show_callees(t) \/ show(t))
    /\ \A t \in server_threads :
          worker[t].pc \in Reading \cup AfterRead /\ worker[t].cur # 0
          => \A i \in FuncIds : worker[t].used[i] >= worker[t].seen[i]
    /\ response.status = 200
          => /\ \A i \in FuncIds : response.snap[i] >= response.seen[i]
             /\ response.data.stats_header[2] = Digit(total_calls(response.snap))

C2_Witness ==
    /\ response.status = 200
    /\ response.req = 2
    /\ target = "running"
    /\ total_calls(response.seen) >= 2

HasSection(page, heading) ==
    \E i \in 1..Len(page) : page[i].tag = "h2" /\ page[i].text = heading

\* C3: in a page route_handler returns, "Called By:" is there exactly when
\* the callers text is not empty and "Called:" exactly when the callees text
\* is not empty; a request without func_name gets neither.
C3_Sections ==
    response.status = 200 =>
        /\ HasSection(response.page, <<"C", "a", "l", "l", "e", "d", " ", "B", "y", ":">>)
             <=> response.data.callers # <<>>
        /\ HasSection(response.page, <<"C", "a", "l", "l", "e", "d", ":">>)
             <=> response.data.callees # <<>>
        /\ response.func_name = <<>> =>
             \A i \in 1..Len(response.page) : response.page[i].tag # "h2"

C3_Witness ==
    /\ response.status = 200
    /\ response.func_name # <<>>
    /\ HasSection(response.page, <<"C", "a", "l", "l", "e", "d", " ", "B", "y", ":">>)
    /\ HasSection(response.page, <<"C", "a", "l", "l", "e", "d", ":">>)

\* C4: a report with fewer than two parsed rows never reaches the statements
\* that index table_dom[0] and table_dom[1]; the request gets a page.
C4_EmptyTableHandled == response.error # "IndexError"

C9_Drained ==
    /\ \A t \in server_threads :
          worker[t].pc \in AfterRead /\ worker[t].cur # 0
          => worker[t].raw = worker[t].written /\ stream[worker[t].cur] = <<>>
    /\ (\A t \in server_threads : worker[t].pc = "idle")
          => \A o \in ReqIds : stream[o] = <<>>
    /\ response.status = 200
          => LET fn == response.func_name
                 q  == response.query
             IN  /\ response.data.callers =
                        IF fn = <<>> THEN <<>> ELSE read(print_callers(response.snap, fn), q)
                 /\ response.data.callees =
                        IF fn = <<>> THEN <<>> ELSE read(print_callees(response.snap, fn), q)
                 /\ response.data.stats_header =
                        get_stats_header(read(print_stats(response.snap, fn), q))

C9_Witness ==
    /\ response.status = 200
    /\ response.req = 2
    /\ response.data.callers # <<>>
    /\ response.data.callees # <<>>
    /\ response.data.callees # response.data.callers

====
